---- MODULE Spec2Model ----
(***************************************************************************)
(* Customer Support AI Service: POST /process-customer-message.            *)
(*                                                                         *)
(* One request is followed from the boundary handler in main.py through    *)
(* CustomerSupportAIService.classify_and_generate_response.  The handler   *)
(* blocks on each call of the completion API; the model stops there, so a  *)
(* state is the position of the request plus the handler's locals.  What   *)
(* the completion API answers (or whether it raises) is chosen by the      *)
(* environment.  Python exceptions are results [raised |-> TRUE, ...] that *)
(* each operator hands on exactly where the code has no matching except.   *)
(* Floats are kept in thousandths (0.5 is 500).                            *)
(***************************************************************************)
EXTENDS Integers, Sequences, FiniteSets, TLC

VARIABLES
    OPENAI_API_KEY,      \* os.getenv("OPENAI_API_KEY"): Unset is Python's None
    pc,                  \* "idle", the function blocked on the API, "responded"
    request,             \* CustomerMessageRequest of the request in progress
    api_calls,           \* call sites that called chat.completions.create, in order
    api_returns,         \* how many of those calls have returned or raised
    classifier_reply,    \* what the classifier's API call ended with
    extractor_reply,     \* what the extractor's API call ended with
    message_type,        \* local of classify_and_generate_response
    confidence_score,    \* local of classify_and_generate_response
    response_data,       \* local of classify_and_generate_response
    customer_response,   \* local of classify_and_generate_response
    exception,           \* the exception that left classify_and_generate_response
    http_response        \* what the endpoint answered

vars == <<OPENAI_API_KEY, pc, request, api_calls, api_returns, classifier_reply,
          extractor_reply, message_type, confidence_score, response_data,
          customer_response, exception, http_response>>

----------------------------------------------------------------------------
(* Bounds *)

\* suggested_resources lists in a reply have at most this many entries
MaxResources == 2
\* the id generator draws its 4 hex characters from this many values
NumIds == 2

----------------------------------------------------------------------------
(* Python values *)

None == [t |-> "None"]
Num(n) == [t |-> "number", n |-> n]
JsonNull == [t |-> "null"]

Return(v) == [raised |-> FALSE, value |-> v]
Raise(type, msg) == [raised |-> TRUE, type |-> type, msg |-> msg]
NoException == [raised |-> FALSE]

\* schamas.py enumerations
MessageType == {"bug_report", "feature_request", "general_inquiry"}
InquiryCategory == {"Account Management", "Billing", "Usage Question", "Other"}

\* Enum(value): the member, or ValueError for a value that is no member
EnumOf(enum, v, msg) ==
    IF v \in enum THEN Return(v) ELSE Raise("ValueError", msg)

\* the classifier's fallback confidence, 0.5
FallbackConfidence == 500

----------------------------------------------------------------------------
(* What a completion-API call can end with *)

\* response.choices[0].message.content: text json.loads rejects, a JSON array,
\* or a JSON object (a function from its keys to their values)
NotJson == [kind |-> "text"]
JsonArray == [kind |-> "array"]
JsonObject(f) == [kind |-> "object", fields |-> f]

\* chat.completions.create raising instead of returning
APIFault == [kind |-> "fault", type |-> "APIConnectionError", msg |-> "Connection error."]

json_loads(content) ==
    IF content.kind = "text"
    THEN Raise("JSONDecodeError", "Expecting value")
    ELSE Return(content)

\* data[key] on the value json.loads returned
Subscript(data, key) ==
    IF data.kind = "array"
    THEN Raise("TypeError", "list indices must be integers or slices, not str")
    ELSE IF key \in DOMAIN data.fields
         THEN Return(data.fields[key])
         ELSE Raise("KeyError", key)

Confidences == {Num(0), Num(333), Num(500), Num(1000), Num(1500), JsonNull}
Classifications == MessageType \cup {"spam"}

ClassifierObjects ==
    {[reasoning |-> "r", classification |-> c, confidence_score |-> s] :
        c \in Classifications, s \in Confidences}
    \cup {[reasoning |-> "r", classification |-> c] : c \in Classifications}
    \cup {[reasoning |-> "r", confidence_score |-> s] : s \in Confidences}
    \cup {[reasoning |-> "r"]}

ClassifierOutcomes ==
    {NotJson, JsonArray, APIFault} \cup {JsonObject(f) : f \in ClassifierObjects}

----------------------------------------------------------------------------
(* 4.1 Classifier *)

\* except (json.JSONDecodeError, KeyError)
ParseFailure(r) == r.raised /\ r.type \in {"JSONDecodeError", "KeyError"}

\* except json.JSONDecodeError alone: a missing key escapes
_classify_message_type_no_KeyError(outcome) ==
    IF outcome.kind = "fault" THEN Raise(outcome.type, outcome.msg)
    ELSE
    LET result == json_loads(outcome)
        tried ==
            IF result.raised THEN result
            ELSE LET c == Subscript(result.value, "classification") IN
                 IF c.raised THEN c
                 ELSE LET m == EnumOf(MessageType, c.value, "not a valid MessageType") IN
                      IF m.raised THEN m
                      ELSE LET s == Subscript(result.value, "confidence_score") IN
                           IF s.raised THEN s
                           ELSE Return(<<m.value, s.value>>)
    IN  IF tried.raised /\ tried.type = "JSONDecodeError"
        THEN Return(<<"general_inquiry", Num(FallbackConfidence)>>)
        ELSE tried

\* round(result["confidence_score"], 1)
_classify_message_type_rounded(outcome) ==
    IF outcome.kind = "fault" THEN Raise(outcome.type, outcome.msg)
    ELSE
    LET result == json_loads(outcome)
        tried ==
            IF result.raised THEN result
            ELSE LET c == Subscript(result.value, "classification") IN
                 IF c.raised THEN c
                 ELSE LET m == EnumOf(MessageType, c.value, "not a valid MessageType") IN
                      IF m.raised THEN m
                      ELSE LET s == Subscript(result.value, "confidence_score") IN
                           IF s.raised THEN s
                           ELSE IF s.value.t # "number"
                           THEN Raise("TypeError", "type NoneType doesn't define __round__")
                           ELSE Return(<<m.value, Num(((s.value.n + 50) \div 100) * 100)>>)
    IN  IF ParseFailure(tried)
        THEN Return(<<"general_inquiry", Num(FallbackConfidence)>>)
        ELSE tried

\* the API call moved inside the try, under a bare except
_classify_message_type_except_all(outcome) ==
    LET result == IF outcome.kind = "fault"
                  THEN Raise(outcome.type, outcome.msg)
                  ELSE json_loads(outcome)
        tried ==
            IF result.raised THEN result
            ELSE LET c == Subscript(result.value, "classification") IN
                 IF c.raised THEN c
                 ELSE LET m == EnumOf(MessageType, c.value, "not a valid MessageType") IN
                      IF m.raised THEN m
                      ELSE LET s == Subscript(result.value, "confidence_score") IN
                           IF s.raised THEN s
                           ELSE Return(<<m.value, s.value>>)
    IN  IF tried.raised
        THEN Return(<<"general_inquiry", Num(FallbackConfidence)>>)
        ELSE tried

_classify_message_type(outcome) ==
    IF outcome.kind = "fault" THEN Raise(outcome.type, outcome.msg)
    ELSE
    LET result == json_loads(outcome)
        tried ==
            IF result.raised THEN result
            ELSE LET c == Subscript(result.value, "classification") IN
                 IF c.raised THEN c
                 ELSE LET m == EnumOf(MessageType, c.value, "not a valid MessageType") IN
                      IF m.raised THEN m
                      ELSE LET s == Subscript(result.value, "confidence_score") IN
                           IF s.raised THEN s
                           ELSE Return(<<m.value, s.value>>)
    IN  IF ParseFailure(tried)
        THEN Return(<<"general_inquiry", Num(FallbackConfidence)>>)
        ELSE tried

----------------------------------------------------------------------------
(* 4.2 Structured Extractor *)

\* the elif compares with the wrong member: feature requests fall to the else
_generate_response_data_fallthrough(mt) ==
    IF mt = "bug_report" THEN "_generate_bug_report_data"
    ELSE "_generate_general_inquiry_data"

_generate_response_data(mt) ==
    IF mt = "bug_report" THEN "_generate_bug_report_data"
    ELSE IF mt = "feature_request" THEN "_generate_feature_request_data"
    ELSE "_generate_general_inquiry_data"

\* str(uuid.uuid4())[:4].upper(): four upper-case hex characters
HexPool == <<"3F2A", "9C0D", "0B7E", "A1E4">>
Hexes == {HexPool[i] : i \in 1..NumIds}
NewId(prefix, hex) == [prefix |-> prefix, hex |-> hex]

\* data[k] for each k of keys, in the order the code evaluates them: the first
\* exception raised, or none
RECURSIVE FirstFailure(_, _)
FirstFailure(data, keys) ==
    IF keys = <<>> THEN NoException
    ELSE LET r == Subscript(data, Head(keys)) IN
         IF r.raised THEN r ELSE FirstFailure(data, Tail(keys))

\* Replies carry well-typed values (strings, lists of strings), so the pydantic
\* constructors of the records below accept what they are given.
BugKeys == <<"title", "severity", "affected_components", "reproduction_steps",
             "priority", "assigned_team">>
BugValues == {
    [title |-> "App crashes on save", severity |-> "High",
     affected_components |-> <<"Editor">>, reproduction_steps |-> <<"Click save">>,
     priority |-> "Urgent", assigned_team |-> "Engineering"],
    [title |-> "Typo in footer", severity |-> "Low",
     affected_components |-> <<"Website">>, reproduction_steps |-> <<"Open home page">>,
     priority |-> "Low", assigned_team |-> "Frontend"]}
Range(seq) == {seq[i] : i \in 1..Len(seq)}
BugObjects == {[k \in S |-> v[k]] : S \in SUBSET Range(BugKeys), v \in BugValues}
BugOutcomes == {NotJson, JsonArray, APIFault} \cup {JsonObject(f) : f \in BugObjects}

FallbackTicket(hex) ==
    [id |-> NewId("BUG-", hex),
     title |-> "Bug Report",
     severity |-> "Medium",
     affected_components |-> <<"General">>,
     reproduction_steps |-> <<"Steps to reproduce not specified">>,
     priority |-> "Medium",
     assigned_team |-> "Support Team"]

TicketResponse(ticket) == [variant |-> "TicketResponse", ticket |-> ticket]

\* except json.JSONDecodeError alone: a missing key escapes
_generate_bug_report_data_no_KeyError(outcome, hex) ==
    IF outcome.kind = "fault" THEN Raise(outcome.type, outcome.msg)
    ELSE
    LET loaded == json_loads(outcome)
        tried ==
            IF loaded.raised THEN loaded
            ELSE LET data == loaded.value
                     failure == FirstFailure(data, BugKeys)
                 IN  IF failure.raised THEN failure
                     ELSE Return(TicketResponse(
                            [id |-> NewId("BUG-", hex),
                             title |-> data.fields["title"],
                             severity |-> data.fields["severity"],
                             affected_components |-> data.fields["affected_components"],
                             reproduction_steps |-> data.fields["reproduction_steps"],
                             priority |-> data.fields["priority"],
                             assigned_team |-> data.fields["assigned_team"]]))
    IN  IF tried.raised /\ tried.type = "JSONDecodeError"
        THEN Return(TicketResponse(FallbackTicket(hex)))
        ELSE tried

_generate_bug_report_data(outcome, hex) ==
    IF outcome.kind = "fault" THEN Raise(outcome.type, outcome.msg)
    ELSE
    LET loaded == json_loads(outcome)
        tried ==
            IF loaded.raised THEN loaded
            ELSE LET data == loaded.value
                     failure == FirstFailure(data, BugKeys)
                 IN  IF failure.raised THEN failure
                     ELSE Return(TicketResponse(
                            [id |-> NewId("BUG-", hex),
                             title |-> data.fields["title"],
                             severity |-> data.fields["severity"],
                             affected_components |-> data.fields["affected_components"],
                             reproduction_steps |-> data.fields["reproduction_steps"],
                             priority |-> data.fields["priority"],
                             assigned_team |-> data.fields["assigned_team"]]))
    IN  IF ParseFailure(tried)
        THEN Return(TicketResponse(FallbackTicket(hex)))
        ELSE tried

FeatureKeys == <<"title", "description", "user_story", "business_value",
                 "complexity_estimate", "affected_components">>
FeatureValues == {
    [title |-> "Dark mode", description |-> "Add a dark theme",
     user_story |-> "As a user, I want a dark theme",
     business_value |-> "High - drives retention",
     complexity_estimate |-> "Low", affected_components |-> <<"UI">>]}
FeatureObjects ==
    {[k \in S |-> v[k]] : S \in SUBSET Range(FeatureKeys), v \in FeatureValues}
FeatureOutcomes ==
    {NotJson, JsonArray, APIFault} \cup {JsonObject(f) : f \in FeatureObjects}

FallbackRequirement(hex) ==
    [id |-> NewId("FR-", hex),
     title |-> "Feature Request",
     description |-> "New feature requested by customer",
     user_story |-> "As a user, I want this feature so that I can benefit from it",
     business_value |-> "Medium - Customer requested feature",
     complexity_estimate |-> "Medium",
     affected_components |-> <<"General">>,
     status |-> "Under Review"]

ProductRequirementResponse(requirement) ==
    [variant |-> "ProductRequirementResponse", product_requirement |-> requirement]

_generate_feature_request_data(outcome, hex) ==
    IF outcome.kind = "fault" THEN Raise(outcome.type, outcome.msg)
    ELSE
    LET loaded == json_loads(outcome)
        tried ==
            IF loaded.raised THEN loaded
            ELSE LET data == loaded.value
                     failure == FirstFailure(data, FeatureKeys)
                 IN  IF failure.raised THEN failure
                     ELSE Return(ProductRequirementResponse(
                            [id |-> NewId("FR-", hex),
                             title |-> data.fields["title"],
                             description |-> data.fields["description"],
                             user_story |-> data.fields["user_story"],
                             business_value |-> data.fields["business_value"],
                             complexity_estimate |-> data.fields["complexity_estimate"],
                             affected_components |-> data.fields["affected_components"],
                             status |-> "Under Review"]))
    IN  IF ParseFailure(tried)
        THEN Return(ProductRequirementResponse(FallbackRequirement(hex)))
        ELSE tried

\* suggested_resources entries: objects that may lack "title" or "url"
ResourceObjects ==
    {[title |-> "Billing FAQ", url |-> "https://help.example.com/billing"],
     [title |-> "User Guide", url |-> "https://help.example.com/guide"],
     [title |-> "Billing FAQ"],
     [url |-> "https://help.example.com/guide"]}
ResourceLists == UNION {[1..n -> ResourceObjects] : n \in 0..MaxResources}
Categories == {"Billing", "Other", "Sales"}

InquiryObjects ==
    {[category |-> c, requires_human_review |-> h, suggested_resources |-> l] :
        c \in Categories, h \in BOOLEAN, l \in ResourceLists}
    \cup {[category |-> c, requires_human_review |-> h] :
        c \in Categories, h \in BOOLEAN}
    \cup {[category |-> c, suggested_resources |-> l] :
        c \in Categories, l \in ResourceLists}
    \cup {[requires_human_review |-> h, suggested_resources |-> l] :
        h \in BOOLEAN, l \in ResourceLists}
    \cup {[note |-> "n"]}
InquiryOutcomes ==
    {NotJson, JsonArray, APIFault} \cup {JsonObject(f) : f \in InquiryObjects}

SuggestedResource(title, url) == [title |-> title, url |-> url]

\* [SuggestedResource(title=resource["title"], url=resource["url"]) for resource in l]
RECURSIVE Resources(_)
Resources(l) ==
    IF l = <<>> THEN Return(<<>>)
    ELSE LET resource == Head(l) IN
         IF "title" \notin DOMAIN resource THEN Raise("KeyError", "title")
         ELSE IF "url" \notin DOMAIN resource THEN Raise("KeyError", "url")
         ELSE LET rest == Resources(Tail(l)) IN
              IF rest.raised THEN rest
              ELSE Return(<<SuggestedResource(resource["title"], resource["url"])>>
                          \o rest.value)

\* data.get("suggested_resources", [])
GetResources(data) ==
    IF data.kind = "array"
    THEN Raise("AttributeError", "'list' object has no attribute 'get'")
    ELSE IF "suggested_resources" \in DOMAIN data.fields
         THEN Return(data.fields["suggested_resources"])
         ELSE Return(<<>>)

GeneralInquiryResponse(category, review, resources) ==
    [variant |-> "GeneralInquiryResponse",
     inquiry_category |-> category,
     requires_human_review |-> review,
     suggested_resources |-> resources]

FallbackInquiry ==
    GeneralInquiryResponse("Other", TRUE,
        <<SuggestedResource("Help Center", "https://help.example.com")>>)

_generate_general_inquiry_data(outcome) ==
    IF outcome.kind = "fault" THEN Raise(outcome.type, outcome.msg)
    ELSE
    LET loaded == json_loads(outcome)
        tried ==
            IF loaded.raised THEN loaded
            ELSE LET data == loaded.value
                     got == GetResources(data)
                 IN
                 IF got.raised THEN got
                 ELSE LET resources == Resources(got.value) IN
                 IF resources.raised THEN resources
                 ELSE LET c == Subscript(data, "category") IN
                 IF c.raised THEN c
                 ELSE LET category ==
                            EnumOf(InquiryCategory, c.value, "not a valid InquiryCategory")
                      IN
                 IF category.raised THEN category
                 ELSE LET review == Subscript(data, "requires_human_review") IN
                 IF review.raised THEN review
                 ELSE Return(GeneralInquiryResponse(category.value, review.value,
                                                    resources.value))
    IN  IF ParseFailure(tried) THEN Return(FallbackInquiry) ELSE tried

\* the sub-procedure the request is blocked in parses what its API call ended with
Extract(procedure, outcome, hex) ==
    IF procedure = "_generate_bug_report_data"
    THEN _generate_bug_report_data(outcome, hex)
    ELSE IF procedure = "_generate_feature_request_data"
    THEN _generate_feature_request_data(outcome, hex)
    ELSE _generate_general_inquiry_data(outcome)

ExtractorOutcomes(procedure) ==
    IF procedure = "_generate_bug_report_data" THEN BugOutcomes
    ELSE IF procedure = "_generate_feature_request_data" THEN FeatureOutcomes
    ELSE InquiryOutcomes

----------------------------------------------------------------------------
(* 4.3 Response Composer *)

\* str.lower() on the strings the templates lower-case
lower(s) ==
    CASE s = "High" -> "high"
      [] s = "Low" -> "low"
      [] s = "Medium" -> "medium"
      [] s = "High - drives retention" -> "high - drives retention"
      [] s = "Medium - Customer requested feature" -> "medium - customer requested feature"
      [] s = "Critical" -> "critical"
      [] OTHER -> s

RECURSIVE Titles(_)
Titles(l) == IF l = <<>> THEN <<>> ELSE <<Head(l).title>> \o Titles(Tail(l))

\* The text is kept as its template and the values the template cites.
_generate_customer_response(req, mt, data) ==
    IF mt = "bug_report" THEN
        IF data.variant # "TicketResponse"
        THEN Raise("AttributeError", "object has no attribute 'ticket'")
        ELSE Return([template |-> "ticket created",
                     cites |-> <<data.ticket.id, data.ticket.assigned_team,
                                 lower(data.ticket.severity)>>])
    ELSE IF mt = "feature_request" THEN
        IF data.variant # "ProductRequirementResponse"
        THEN Raise("AttributeError", "object has no attribute 'product_requirement'")
        ELSE Return([template |-> "requirement logged",
                     cites |-> <<data.product_requirement.id,
                                 lower(data.product_requirement.business_value)>>])
    ELSE
        IF data.variant # "GeneralInquiryResponse"
        THEN Raise("AttributeError", "object has no attribute 'requires_human_review'")
        ELSE IF data.requires_human_review
        THEN Return([template |-> "escalated, within 24 hours",
                     cites |-> <<req.product, Titles(data.suggested_resources)>>])
        ELSE Return([template |-> "hope the information helps",
                     cites |-> <<req.product>>])

----------------------------------------------------------------------------
(* 4.4 Orchestrator and the endpoint *)

\* message_type=MessageType.general_inquiry written into the envelope
MainResponse_fixed_type(mt, confidence, data, text) ==
    IF confidence.t # "number"
    THEN Raise("ValidationError", "confidence_score: Input should be a valid number")
    ELSE Return([message_type |-> "general_inquiry",
                 confidence_score |-> confidence.n,
                 response_data |-> data,
                 customer_response |-> text])

\* MainResponse(...): pydantic validates the fields; confidence_score is a float
MainResponse(mt, confidence, data, text) ==
    IF confidence.t # "number"
    THEN Raise("ValidationError", "confidence_score: Input should be a valid number")
    ELSE Return([message_type |-> mt,
                 confidence_score |-> confidence.n,
                 response_data |-> data,
                 customer_response |-> text])

\* os.getenv of a variable that is not in the environment
Unset == "<None>"
Environments == {Unset, "", "sk-test"}

\* the credential check left out
KeyMissing_unchecked(key) == FALSE

\* if not OPENAI_API_KEY
KeyMissing(key) == key = Unset \/ key = ""

\* the call wrapped in a retry that issues it a second time
create_twice(calls, site) == Append(Append(calls, site), site)

\* self.client.chat.completions.create(...) called from `site`
create(calls, site) == Append(calls, site)

HTTPException(status, detail) == [status |-> status, detail |-> detail]
Pending == [status |-> 0]

Requests ==
    {[customer_id |-> "c-1", message |-> "The app crashes when I click save",
      product |-> p] : p \in {"Editor", "Billing Portal"}}

ExtractionProcedures ==
    {"_generate_bug_report_data", "_generate_feature_request_data",
     "_generate_general_inquiry_data"}

\* completion-API calls issued and not yet returned
in_flight == Len(api_calls) - api_returns

Init ==
    /\ OPENAI_API_KEY \in Environments
    /\ pc = "idle"
    /\ request = None
    /\ api_calls = <<>>
    /\ api_returns = 0
    /\ classifier_reply = None
    /\ extractor_reply = None
    /\ message_type = "None"
    /\ confidence_score = None
    /\ response_data = None
    /\ customer_response = None
    /\ exception = NoException
    /\ http_response = Pending

\* except Exception as e: raise HTTPException(status_code=500, detail=str(e))
Fails(e) ==
    /\ exception' = e
    /\ http_response' = HTTPException(500, e.msg)
    /\ pc' = "responded"

\* POST /process-customer-message arrives: the credential check, then the
\* Orchestrator runs up to the classifier's call of the completion API
process_customer_message ==
    /\ pc = "idle"
    /\ \E req \in Requests :
        /\ request' = req
        /\ IF KeyMissing(OPENAI_API_KEY)
           THEN /\ Fails(Raise("ValueError",
                        "OPENAI_API_KEY environment variable is required. Please add it to your .env file."))
                /\ UNCHANGED api_calls
           ELSE /\ api_calls' = create(api_calls, "_classify_message_type")
                /\ pc' = "_classify_message_type"
                /\ UNCHANGED <<exception, http_response>>
    /\ UNCHANGED <<OPENAI_API_KEY, api_returns, classifier_reply, extractor_reply,
                   message_type, confidence_score, response_data, customer_response>>

\* The classifier's API call ends; the classifier parses the reply and the
\* Orchestrator goes on to the extraction sub-procedure's API call
ClassifierCallEnds ==
    /\ pc = "_classify_message_type"
    /\ \E outcome \in ClassifierOutcomes :
        LET r == _classify_message_type(outcome) IN
        /\ classifier_reply' = outcome
        /\ api_returns' = api_returns + 1
        /\ IF r.raised
           THEN /\ Fails(r)
                /\ UNCHANGED <<message_type, confidence_score, api_calls>>
           ELSE /\ message_type' = r.value[1]
                /\ confidence_score' = r.value[2]
                /\ api_calls' = create(api_calls, _generate_response_data(r.value[1]))
                /\ pc' = _generate_response_data(r.value[1])
                /\ UNCHANGED <<exception, http_response>>
    /\ UNCHANGED <<OPENAI_API_KEY, request, extractor_reply, response_data,
                   customer_response>>

\* The extraction sub-procedure's API call ends; it parses the reply, the
\* Composer writes the text and the Orchestrator returns the MainResponse
ExtractorCallEnds ==
    /\ pc \in ExtractionProcedures
    /\ \E outcome \in ExtractorOutcomes(pc), hex \in Hexes :
        LET r == Extract(pc, outcome, hex)
            text == _generate_customer_response(request, message_type, r.value)
            main == MainResponse(message_type, confidence_score, r.value, text.value)
        IN
        /\ extractor_reply' = outcome
        /\ api_returns' = api_returns + 1
        /\ IF r.raised
           THEN Fails(r) /\ UNCHANGED <<response_data, customer_response>>
           ELSE /\ response_data' = r.value
                /\ IF text.raised
                   THEN Fails(text) /\ UNCHANGED customer_response
                   ELSE /\ customer_response' = text.value
                        /\ IF main.raised
                           THEN Fails(main)
                           ELSE /\ http_response' = [status |-> 200, body |-> main.value]
                                /\ pc' = "responded"
                                /\ UNCHANGED exception
    /\ UNCHANGED <<OPENAI_API_KEY, request, api_calls, classifier_reply,
                   message_type, confidence_score>>

\* The response is sent; the request's locals are gone and the server waits
\* for the next request
NextRequest ==
    /\ pc = "responded"
    /\ pc' = "idle"
    /\ request' = None
    /\ api_calls' = <<>>
    /\ api_returns' = 0
    /\ classifier_reply' = None
    /\ extractor_reply' = None
    /\ message_type' = "None"
    /\ confidence_score' = None
    /\ response_data' = None
    /\ customer_response' = None
    /\ exception' = NoException
    /\ http_response' = Pending
    /\ UNCHANGED OPENAI_API_KEY

Next ==
    \/ process_customer_message
    \/ ClassifierCallEnds
    \/ ExtractorCallEnds
    \/ NextRequest

Spec == Init /\ [][Next]_vars

TypeOK ==
    /\ pc \in {"idle", "_classify_message_type", "responded"} \cup ExtractionProcedures
    /\ message_type \in MessageType \cup {"None"}
    /\ api_returns \in 0..2

----------------------------------------------------------------------------
(* Properties *)

IsObject(reply) == "kind" \in DOMAIN reply /\ reply.kind = "object"
HasKeys(reply, keys) == IsObject(reply) /\ keys \subseteq DOMAIN reply.fields
Responded(status) == pc = "responded" /\ http_response.status = status
LastCallSite == IF api_calls = <<>> THEN "None" ELSE api_calls[Len(api_calls)]

\* C1: a request that completes with a MainResponse carries the response_data
\* variant of its message_type: bug_report a TicketResponse, feature_request a
\* ProductRequirementResponse, general_inquiry a GeneralInquiryResponse.
C1_VariantMatchesMessageType ==
    Responded(200) =>
        LET body == http_response.body IN
        /\ body.message_type \in MessageType
        /\ body.message_type = "bug_report"
             => body.response_data.variant = "TicketResponse"
        /\ body.message_type = "feature_request"
             => body.response_data.variant = "ProductRequirementResponse"
        /\ body.message_type = "general_inquiry"
             => body.response_data.variant = "GeneralInquiryResponse"

\* a feature request answered from the extractor's fallback record
C1_Witness ==
    /\ Responded(200)
    /\ http_response.body.message_type = "feature_request"
    /\ extractor_reply = NotJson

\* C2 (as the specification states it): a classifier reply that is a JSON
\* object with all required keys but an unknown classification string gives
\* the fallback (general_inquiry, 0.5) and raises nothing.
C2_UnknownClassificationFallsBack ==
    ( /\ HasKeys(classifier_reply, {"classification", "confidence_score", "reasoning"})
      /\ classifier_reply.fields["classification"] \notin MessageType )
    => /\ message_type = "general_inquiry"
       /\ confidence_score = Num(FallbackConfidence)
       /\ ~exception.raised

\* C3 (as the specification states it): a request that completes has made
\* exactly three calls of the completion API.
C3_ThreeCalls ==
    Responded(200) => Len(api_calls) = 3 /\ api_returns = 3

\* C3, amended: a request that completes has made exactly two calls of the
\* completion API, the classifier's and then the extraction sub-procedure's,
\* and at no time are two calls in flight.
C3_TwoSequentialCalls ==
    /\ in_flight \in {0, 1}
    /\ Responded(200) =>
        /\ Len(api_calls) = 2
        /\ api_returns = 2
        /\ api_calls[1] = "_classify_message_type"
        /\ api_calls[2] \in ExtractionProcedures

\* a bug report completed on the parse-success path of both stages
C3_Witness ==
    /\ Responded(200)
    /\ http_response.body.message_type = "bug_report"
    /\ HasKeys(classifier_reply, {"classification", "confidence_score"})
    /\ HasKeys(extractor_reply, Range(BugKeys))

\* C4 (as the specification states it): in general-inquiry extraction a JSON
\* object whose category is no InquiryCategory gives the fallback record and no
\* error reaches the caller.
C4_UnknownCategoryFallsBack ==
    ( /\ LastCallSite = "_generate_general_inquiry_data"
      /\ HasKeys(extractor_reply, {"category"})
      /\ extractor_reply.fields["category"] \notin InquiryCategory )
    => /\ response_data = FallbackInquiry
       /\ ~exception.raised

\* C5: a classifier reply that is not valid JSON, or is a JSON object without
\* the classification key, gives exactly (general_inquiry, 0.5).
C5_ClassifierFallback ==
    ( \/ classifier_reply = NotJson
      \/ IsObject(classifier_reply)
           /\ "classification" \notin DOMAIN classifier_reply.fields )
    => /\ message_type = "general_inquiry"
       /\ confidence_score = Num(FallbackConfidence)

\* the reply is an object without the classification key, the request went on
C5_Witness ==
    /\ IsObject(classifier_reply)
    /\ "classification" \notin DOMAIN classifier_reply.fields
    /\ "confidence_score" \in DOMAIN classifier_reply.fields
    /\ pc = "_generate_general_inquiry_data"

\* C6: with the credential absent the request ends in a 500 carrying the
\* fault's message, the Orchestrator is never entered and no call of the
\* completion API is made.
C6_MissingKeyFailsBeforeOrchestrator ==
    (OPENAI_API_KEY \in {Unset, ""} /\ pc # "idle")
    => /\ Responded(500)
       /\ exception.raised
       /\ http_response.detail = exception.msg
       /\ exception.type = "ValueError"
       /\ api_calls = <<>>
       /\ api_returns = 0
       /\ message_type = "None"
       /\ response_data = None

C6_Witness ==
    OPENAI_API_KEY = Unset /\ Responded(500) /\ request \in Requests

\* C7: the confidence_score of the returned MainResponse is the number the
\* classifier parsed from the reply, for every value in [0,1], whichever path
\* the extraction takes.
C7_ConfidencePassedThrough ==
    ( /\ Responded(200)
      /\ HasKeys(classifier_reply, {"classification", "confidence_score"})
      /\ classifier_reply.fields["classification"] \in MessageType
      /\ classifier_reply.fields["confidence_score"].t = "number"
      /\ classifier_reply.fields["confidence_score"].n \in 0..1000 )
    => http_response.body.confidence_score
         = classifier_reply.fields["confidence_score"].n

\* 0.333 reaches the envelope after the extractor fell back
C7_Witness ==
    /\ Responded(200)
    /\ HasKeys(classifier_reply, {"classification", "confidence_score"})
    /\ classifier_reply.fields["classification"] \in MessageType
    /\ classifier_reply.fields["confidence_score"] = Num(333)
    /\ http_response.body.confidence_score = 333
    /\ extractor_reply = NotJson

\* C8: in bug-report extraction a reply that is not valid JSON, or a JSON
\* object missing one of the six keys, gives the fixed fallback ticket with a
\* generated id beginning with "BUG-", and the extractor raises nothing.
C8_BugReportFallback ==
    ( /\ LastCallSite = "_generate_bug_report_data"
      /\ \/ extractor_reply = NotJson
         \/ IsObject(extractor_reply)
              /\ ~(Range(BugKeys) \subseteq DOMAIN extractor_reply.fields) )
    => /\ response_data # None
       /\ response_data.variant = "TicketResponse"
       /\ response_data.ticket.id.prefix = "BUG-"
       /\ response_data.ticket.id.hex \in Hexes
       /\ response_data.ticket.title = "Bug Report"
       /\ response_data.ticket.severity = "Medium"
       /\ response_data.ticket.affected_components = <<"General">>
       /\ Len(response_data.ticket.reproduction_steps) = 1
       /\ response_data.ticket.priority = "Medium"
       /\ response_data.ticket.assigned_team = "Support Team"
       /\ exception.raised => exception.type = "ValidationError"

\* the reply lacks only assigned_team
C8_Witness ==
    /\ LastCallSite = "_generate_bug_report_data"
    /\ IsObject(extractor_reply)
    /\ DOMAIN extractor_reply.fields = Range(BugKeys) \ {"assigned_team"}
    /\ Responded(200)

\* C9: the stages run in the order classify, extract, compose: the extraction
\* call is issued only after the classifier's call returned, from the
\* sub-procedure the classifier's message_type selects, and the composed text
\* exists only after extraction produced response_data.
C9_StagesInOrder ==
    /\ Len(api_calls) <= 2
    /\ Len(api_calls) >= 1 => api_calls[1] = "_classify_message_type"
    /\ Len(api_calls) = 2 =>
        /\ api_returns >= 1
        /\ classifier_reply # None
        /\ message_type \in MessageType
        /\ message_type = "bug_report"
             => api_calls[2] = "_generate_bug_report_data"
        /\ message_type = "feature_request"
             => api_calls[2] = "_generate_feature_request_data"
        /\ message_type = "general_inquiry"
             => api_calls[2] = "_generate_general_inquiry_data"
    /\ response_data # None => api_returns = 2 /\ extractor_reply # None
    /\ customer_response # None => response_data # None

\* the composed text of a feature request
C9_Witness ==
    /\ customer_response # None
    /\ message_type = "feature_request"
    /\ api_calls = <<"_classify_message_type", "_generate_feature_request_data">>

\* C10: when the classifier's or the extractor's call of the completion API
\* raises, the request ends in a 500 carrying the fault's message; no later
\* stage runs, the call is not issued again, no fallback record is substituted
\* and no MainResponse is returned.
C10_ApiFaultEndsRequest ==
    /\ classifier_reply = APIFault =>
        /\ Responded(500)
        /\ http_response = HTTPException(500, APIFault.msg)
        /\ api_calls = <<"_classify_message_type">>
        /\ message_type = "None"
        /\ confidence_score = None
        /\ extractor_reply = None
        /\ response_data = None
        /\ customer_response = None
    /\ extractor_reply = APIFault =>
        /\ Responded(500)
        /\ http_response = HTTPException(500, APIFault.msg)
        /\ Len(api_calls) = 2
        /\ api_returns = 2
        /\ response_data = None
        /\ customer_response = None

\* the extractor's call raised after the classifier had answered
C10_Witness ==
    /\ extractor_reply = APIFault
    /\ message_type = "bug_report"
    /\ Responded(500)

====
